---- MODULE Spec2Model ----
(***************************************************************************)
(* ctl10n: strings.toml -> strings.rs.                                     *)
(*                                                                         *)
(*   parse_toml            src/src/toml_parser.rs                          *)
(*   gen_strings_macro     src/src/lib.rs                                  *)
(*   convert_strings_file  src/src/lib.rs                                  *)
(*   Error                 src/src/error.rs                                *)
(*                                                                         *)
(* A Rust string is a sequence of one-character strings.  A token of the   *)
(* generated text is a record; the generated text and the content of the   *)
(* output file are sequences of tokens.                                    *)
(***************************************************************************)
EXTENDS Integers, Sequences, FiniteSets, TLC

VARIABLES
    text,       \* the text given to parse_toml and gen_strings_macro
    call,       \* the last call of parse_toml or gen_strings_macro
    expansion,  \* the last tr!(...) invocation compiled against call's output
    rsFile,     \* the content of rs_file on disk
    conv        \* the last call of convert_strings_file

vars == <<text, call, expansion, rsFile, conv>>

----------------------------------------------------------------------------
(* Bounds of the model *)

MaxEntries == 2

MaxArgs == 2

MaxConversions == 2

----------------------------------------------------------------------------
(* Input documents *)

\* The keys of the documents, in the order the files on disk write them.
KeySeq == << <<"a">>, <<"b">>, <<"k", "\"">> >>

KeyPool == { KeySeq[i] : i \in 1..Len(KeySeq) }

StringPool == { <<"x">>, <<"{", "\"", "\\", "}">> }

String(s) == [type |-> "String", s |-> s]

NonString(t) == [type |-> t, s |-> <<>>]

Values == { String(s) : s \in StringPool } \cup { NonString("Integer"), NonString("Table") }

Entries == [key : KeyPool, value : Values]

SeqsUpTo(S, n) == UNION { [1..m -> S] : m \in 0..n }

\* A document: whether its text is well-formed TOML, the type of the value
\* its text parses to, and the key/value pairs of its top-level table in
\* the order they are written.
Docs ==
    [wellFormed : BOOLEAN, top : {"Table"}, entries : SeqsUpTo(Entries, MaxEntries)]
    \cup [wellFormed : {TRUE}, top : {"Integer"}, entries : {<<>>}]

\* The document of the empty table.
EmptyDoc == [wellFormed |-> TRUE, top |-> "Table", entries |-> <<>>]

DuplicateKey(doc) ==
    \E i, j \in 1..Len(doc.entries) : i # j /\ doc.entries[i].key = doc.entries[j].key

\* The TOML grammar: a malformed text or a key defined twice is a syntax error.
SyntacticallyValid(doc) == doc.wellFormed /\ ~DuplicateKey(doc)

----------------------------------------------------------------------------
(* error.rs *)

Ok(v) == [ok |-> TRUE, err |-> "none", val |-> v]

Err(e, empty) == [ok |-> FALSE, err |-> e, val |-> empty]

\* impl From<toml::de::Error> for Error
FromTomlError(empty) == Err("TOMLParseError", empty)

\* impl From<std::io::Error> for Error
FromIoError(empty) == Err("IOError", empty)

TOMLStructureError(empty) == Err("TOMLStructureError", empty)

----------------------------------------------------------------------------
(* toml_parser.rs *)

\* toml.parse::<toml::Value>(): Err on a syntax error, else the value; a
\* table is the set of its <<key, value>> pairs.
TomlParse(doc) ==
    IF ~SyntacticallyValid(doc) THEN FromTomlError({})
    ELSE IF doc.top = "Table"
         THEN Ok([type |-> "Table",
                  table |-> { <<doc.entries[i].key, doc.entries[i].value>> :
                                  i \in 1..Len(doc.entries) }])
         ELSE Ok([type |-> doc.top, table |-> {}])

\* Mutant: the values that are no strings are left out of the mapping.
CollectStringsSkipping(table) ==
    Ok({ <<p[1], p[2].s>> : p \in { q \in table : q[2].type = "String" } })

\* table.into_iter().map(..).collect::<Result<HashMap<_, _>>>(): the first
\* Err met ends the collection, and every Err is TOMLStructureError.
CollectStrings(table) ==
    IF \E p \in table : p[2].type # "String"
    THEN TOMLStructureError({})
    ELSE Ok({ <<p[1], p[2].s>> : p \in table })

\* Mutant: the shape of the entries is looked at before the syntax.
ParseTomlShapeFirst(toml) ==
    IF \E i \in 1..Len(toml.entries) : toml.entries[i].value.type # "String"
    THEN TOMLStructureError({})
    ELSE IF ~SyntacticallyValid(toml) THEN FromTomlError({})
    ELSE IF toml.top = "Table"
         THEN Ok({ <<toml.entries[i].key, toml.entries[i].value.s>> :
                       i \in 1..Len(toml.entries) })
         ELSE TOMLStructureError({})

\* The HashMap<String, String> is the set of its <<key, string>> pairs.
ParseToml(toml) ==
    LET toml_value == TomlParse(toml) IN
    IF ~toml_value.ok THEN toml_value
    ELSE IF toml_value.val.type = "Table"
         THEN CollectStrings(toml_value.val.table)
         ELSE TOMLStructureError({})

----------------------------------------------------------------------------
(* lib.rs: gen_strings_macro *)

\* strings.iter(): a HashMap yields its pairs in an order fixed by its
\* RandomState, which differs from one HashMap to the next; every order of
\* the pairs is a possible one.
IterOrders(strings) ==
    { kv \in [1..Cardinality(strings) -> strings] :
          \A i, j \in 1..Cardinality(strings) : i # j => kv[i] # kv[j] }

\* One character of a string literal as quote! prints it.
EscapeChar(c) ==
    IF c = "\"" THEN <<"\\", "\"">>
    ELSE IF c = "\\" THEN <<"\\", "\\">>
    ELSE <<c>>

RECURSIVE EscapeChars(_)
EscapeChars(s) ==
    IF s = <<>> THEN <<>> ELSE EscapeChar(Head(s)) \o EscapeChars(Tail(s))

\* #keys, #values: a &str interpolated by quote! is a string literal token,
\* the text between double quotes with quotes and backslashes escaped.
LiteralString(s) == <<"\"">> \o EscapeChars(s) \o <<"\"">>

Tok(t) == [tok |-> t, key |-> <<>>, value |-> <<>>]

\* ;
Sep == Tok(";")

\* Mutant: the value is put between quotes as it is, nothing escaped.
KeyArmUnescaped(k, v) ==
    [tok |-> "arm", key |-> LiteralString(k), value |-> <<"\"">> \o v \o <<"\"">>]

\* (#keys) => { #values }
KeyArm(k, v) == [tok |-> "arm", key |-> LiteralString(k), value |-> LiteralString(v)]

\* ($key:tt) => { compile_error!(concat!("There is no string for key `",
\*                                       stringify!($key), "`")) }
CatchAll == Tok("catchall")

\* Mutant: the repetition stops after its first arm.
RepetitionFirstOnly(kv) ==
    IF kv = <<>> THEN <<>> ELSE <<KeyArm(kv[1][1], kv[1][2])>>

\* #( (#keys) => { #values } );*  : one arm per pair, `;` between two arms.
RECURSIVE Repetition(_)
Repetition(kv) ==
    IF kv = <<>> THEN <<>>
    ELSE IF Len(kv) = 1 THEN <<KeyArm(kv[1][1], kv[1][2])>>
    ELSE <<KeyArm(kv[1][1], kv[1][2]), Sep>> \o Repetition(Tail(kv))

\* The body of macro_rules! ctl10n_tr_inner { ... }
InnerRules(kv) == Repetition(kv) \o <<Sep, CatchAll, Sep>>

\* ($key:tt) => { ctl10n_tr_inner!($key) }
TrRule1 == Tok("tr1")

\* ($key:tt, $( $args:tt )* ) => { format!(ctl10n_tr_inner!($key), $( $args )* ) }
TrRule2 == Tok("tr2")

\* result.to_string()
QuoteOutput(kv) ==
    <<Tok("macro_rules! ctl10n_tr_inner"), Tok("{")>> \o InnerRules(kv)
    \o <<Tok("}"), Tok("macro_rules! tr"), Tok("{"), TrRule1, Sep, TrRule2, Sep, Tok("}")>>

\* gen_strings_macro(input), kv being the order strings.iter() takes.
GenStringsMacro(input, kv) ==
    LET strings == ParseToml(input) IN
    IF ~strings.ok THEN Err(strings.err, <<>>)
    ELSE Ok(QuoteOutput(kv))

\* The orders strings.iter() may take in gen_strings_macro(input).
GenOrders(input) ==
    LET strings == ParseToml(input) IN
    IF strings.ok THEN IterOrders(strings.val) ELSE { <<>> }

----------------------------------------------------------------------------
(* The generated macros, as the compiler of the consuming crate reads them *)

\* The tokens after `macro_rules! name {`, up to the closing brace.
RECURSIVE UpToBrace(_)
UpToBrace(toks) ==
    IF toks = <<>> \/ Head(toks) = Tok("}") THEN <<>>
    ELSE <<Head(toks)>> \o UpToBrace(Tail(toks))

RECURSIVE MacroBody(_, _)
MacroBody(code, name) ==
    IF Len(code) < 2 THEN <<>>
    ELSE IF code[1] = Tok(name) /\ code[2] = Tok("{")
         THEN UpToBrace(SubSeq(code, 3, Len(code)))
         ELSE MacroBody(Tail(code), name)

RECURSIVE StripTrailingSeps(_)
StripTrailingSeps(body) ==
    IF body # <<>> /\ body[Len(body)] = Sep
    THEN StripTrailingSeps(SubSeq(body, 1, Len(body) - 1))
    ELSE body

\* macro_rules! takes  $( $lhs:tt => $rhs:tt );+ $(;)*  : one rule or more,
\* one `;` between two rules, any number of `;` after the last one.
WellFormedRules(body) ==
    LET b == StripTrailingSeps(body) IN
    /\ b # <<>>
    /\ Len(b) % 2 = 1
    /\ \A i \in 1..Len(b) : (i % 2 = 1) <=> (b[i] # Sep)

\* The rules of a well-formed body, in the order they are tried.
RulesOf(body) ==
    LET b == StripTrailingSeps(body) IN
    [i \in 1..((Len(b) + 1) \div 2) |-> b[2 * i - 1]]

NoExpansion == [kind |-> "none", lit |-> <<>>, key |-> <<>>]

\* The first rule whose matcher takes the one token `key`, transcribed:
\* ("k") takes the token "k" alone, ($key:tt) takes any token.
RECURSIVE FirstMatch(_, _)
FirstMatch(rules, key) ==
    IF rules = <<>> THEN [kind |-> "no_rules_expected", lit |-> <<>>, key |-> key]
    ELSE IF Head(rules).tok = "arm" /\ Head(rules).key = key
         THEN [kind |-> "literal", lit |-> Head(rules).value, key |-> key]
    ELSE IF Head(rules) = CatchAll
         THEN [kind |-> "compile_error", lit |-> <<>>, key |-> key]
    ELSE FirstMatch(Tail(rules), key)

\* ctl10n_tr_inner!(key) against the generated text.
InnerExpand(code, key) ==
    LET body == MacroBody(code, "macro_rules! ctl10n_tr_inner") IN
    IF ~WellFormedRules(body)
    THEN [kind |-> "invalid_macro_definition", lit |-> <<>>, key |-> key]
    ELSE FirstMatch(RulesOf(body), key)

Comma == <<",">>

\* Mutant: the second rule hands the extra arguments over in reverse order.
RECURSIVE TrFirstMatchReversing(_, _, _)
TrFirstMatchReversing(rules, code, tokens) ==
    IF rules = <<>>
    THEN [shape |-> "no_rules_expected", inner |-> NoExpansion, args |-> <<>>]
    ELSE IF Head(rules) = TrRule1 /\ Len(tokens) = 1
         THEN [shape |-> "inner", inner |-> InnerExpand(code, tokens[1]), args |-> <<>>]
    ELSE IF Head(rules) = TrRule2 /\ Len(tokens) >= 2 /\ tokens[2] = Comma
         THEN [shape |-> "format", inner |-> InnerExpand(code, tokens[1]),
               args |-> [i \in 1..(Len(tokens) - 2) |-> tokens[Len(tokens) + 1 - i]]]
    ELSE TrFirstMatchReversing(Tail(rules), code, tokens)

\* tr!(tokens) against the generated text: the first of the two rules of
\* tr that takes the tokens.
RECURSIVE TrFirstMatch(_, _, _)
TrFirstMatch(rules, code, tokens) ==
    IF rules = <<>>
    THEN [shape |-> "no_rules_expected", inner |-> NoExpansion, args |-> <<>>]
    ELSE IF Head(rules) = TrRule1 /\ Len(tokens) = 1
         THEN [shape |-> "inner", inner |-> InnerExpand(code, tokens[1]), args |-> <<>>]
    ELSE IF Head(rules) = TrRule2 /\ Len(tokens) >= 2 /\ tokens[2] = Comma
         THEN [shape |-> "format", inner |-> InnerExpand(code, tokens[1]),
               args |-> SubSeq(tokens, 3, Len(tokens))]
    ELSE TrFirstMatch(Tail(rules), code, tokens)

TrExpand(code, tokens) ==
    TrFirstMatch(RulesOf(MacroBody(code, "macro_rules! tr")), code, tokens)

\* The string a string literal token denotes.
RECURSIVE Unescape(_)
Unescape(s) ==
    IF s = <<>> THEN <<>>
    ELSE IF Head(s) = "\\" /\ Len(s) >= 2
         THEN <<s[2]>> \o Unescape(SubSeq(s, 3, Len(s)))
         ELSE <<Head(s)>> \o Unescape(Tail(s))

LiteralValue(lit) == Unescape(SubSeq(lit, 2, Len(lit) - 1))

----------------------------------------------------------------------------
(* Calls of the library and of the generated macro *)

\* The key tokens a consumer writes: the literal of each key of the pool and
\* of one key no document holds.
KeyTokens == { LiteralString(k) : k \in KeyPool \cup { <<"z">> } }

ArgTokens == { <<"n">>, Comma }

\* What follows the key in a tr!: nothing, a comma and the extra arguments,
\* or a token that is no comma.
AfterKey ==
    { <<>>, << <<"n">> >> } \cup { <<Comma>> \o args : args \in SeqsUpTo(ArgTokens, MaxArgs) }

\* The token lists given to tr!: nothing, or a key and what follows it.
TrCalls == { <<>> } \cup { <<k>> \o rest : k \in KeyTokens, rest \in AfterKey }

NoCall == [op |-> "none", result |-> Err("none", <<>>)]

NoInvocation == [tokens |-> <<>>, result |-> [shape |-> "none", inner |-> NoExpansion, args |-> <<>>]]

NoFile == [exists |-> FALSE, content |-> <<>>]

NoConv ==
    [calls |-> 0, in |-> [opens |-> FALSE, reads |-> FALSE, doc |-> EmptyDoc],
     out |-> [opens |-> FALSE, written |-> 0],
     result |-> Err("none", <<>>), before |-> NoFile]

\* parse_toml(text)
CallParseToml ==
    /\ call' = [op |-> "parse_toml", result |-> ParseToml(text)]
    /\ expansion' = NoInvocation
    /\ UNCHANGED <<text, rsFile, conv>>

\* gen_strings_macro(text)
CallGenStringsMacro ==
    /\ \E kv \in GenOrders(text) :
           call' = [op |-> "gen_strings_macro", result |-> GenStringsMacro(text, kv)]
    /\ expansion' = NoInvocation
    /\ UNCHANGED <<text, rsFile, conv>>

\* A tr!(...) in a crate that includes the text gen_strings_macro returned.
\* An expansion depends on the text and on the tokens of the invocation
\* alone, so one invocation is followed per generated text.
InvokeTr ==
    /\ call.op = "gen_strings_macro"
    /\ call.result.ok
    /\ expansion = NoInvocation
    /\ \E tokens \in TrCalls :
           expansion' = [tokens |-> tokens, result |-> TrExpand(call.result.val, tokens)]
    /\ UNCHANGED <<text, call, rsFile, conv>>

\* The input text is any document; no call was made yet.
Init ==
    /\ text \in Docs
    /\ call = NoCall
    /\ expansion = NoInvocation
    /\ rsFile = NoFile
    /\ conv = NoConv

Next == CallParseToml \/ CallGenStringsMacro \/ InvokeTr

Spec == Init /\ [][Next]_vars

----------------------------------------------------------------------------
(* lib.rs: convert_strings_file *)

\* The documents the files on disk hold: the i-th entry has the i-th key.
FileDocs ==
    { d \in Docs : \A i \in 1..Len(d.entries) : d.entries[i].key = KeySeq[i] }

\* What toml_file is at the call: whether fs::File::open succeeds, whether
\* read_to_string succeeds, and the text read (none from a file that
\* cannot be read).
TomlFiles ==
    { f \in [opens : BOOLEAN, reads : BOOLEAN, doc : FileDocs] :
          /\ ~f.opens => ~f.reads
          /\ ~f.reads => f.doc = EmptyDoc }

WriteFails == -1

\* What rs_file allows at the call: whether OpenOptions::open succeeds, and
\* what output_file.write does with n bytes: an error, or the number of
\* bytes it wrote (Write::write may write less than it is given).
RsOutcomes(n) == [opens : BOOLEAN, written : { WriteFails } \cup 1..n]

\* The file after write took the first n bytes of buf at offset 0: what lay
\* beyond them stays.
Overwrite(content, buf, n) ==
    [i \in 1..(IF Len(content) > n THEN Len(content) ELSE n) |->
        IF i <= n THEN buf[i] ELSE content[i]]

\* OpenOptions::new().write(true).create(true).open(rs_file): the file is
\* created when absent, and keeps its content when present.
OpenCreate(file) == [exists |-> TRUE, content |-> file.content]

\* convert_strings_file(toml_file, rs_file): the result and rs_file after it.
ConvertStringsFile(in, kv, out, file) ==
    IF ~in.opens \/ ~in.reads THEN [result |-> FromIoError(<<>>), file |-> file]
    ELSE LET code == GenStringsMacro(in.doc, kv) IN
         IF ~code.ok THEN [result |-> code, file |-> file]
         ELSE IF ~out.opens THEN [result |-> FromIoError(<<>>), file |-> file]
         ELSE IF out.written = WriteFails
              THEN [result |-> FromIoError(<<>>), file |-> OpenCreate(file)]
              ELSE [result |-> Ok(code.val),
                    file |-> [exists |-> TRUE,
                              content |-> Overwrite(OpenCreate(file).content,
                                                    code.val, out.written)]]

\* The number of bytes of the text gen_strings_macro makes of a document.
CodeLen(doc, kv) ==
    LET code == GenStringsMacro(doc, kv) IN IF code.ok THEN Len(code.val) ELSE 1

CallConvertStringsFile ==
    /\ conv.calls < MaxConversions
    /\ \E in \in TomlFiles : \E kv \in GenOrders(in.doc) :
       \E out \in RsOutcomes(CodeLen(in.doc, kv)) :
           LET r == ConvertStringsFile(in, kv, out, rsFile) IN
           /\ rsFile' = r.file
           /\ conv' = [calls |-> conv.calls + 1, in |-> in, out |-> out,
                       result |-> r.result, before |-> rsFile]
    /\ UNCHANGED <<text, call, expansion>>

InitConvert ==
    /\ text = EmptyDoc
    /\ call = NoCall
    /\ expansion = NoInvocation
    /\ rsFile = NoFile
    /\ conv = NoConv

NextConvert == CallConvertStringsFile

SpecConvert == InitConvert /\ [][NextConvert]_vars

----------------------------------------------------------------------------
(* What the documents say, read off the document itself *)

\* Every value of the top-level table is a plain string.
FlatStringTable(doc) ==
    /\ doc.top = "Table"
    /\ \A i \in 1..Len(doc.entries) : doc.entries[i].value.type = "String"

\* The table T a flat document states: its <<key, string>> pairs.
TableOf(doc) ==
    { <<doc.entries[i].key, doc.entries[i].value.s>> : i \in 1..Len(doc.entries) }

KeysOf(doc) == { doc.entries[i].key : i \in 1..Len(doc.entries) }

Generated == call.op = "gen_strings_macro" /\ call.result.ok

\* The body of the inner dispatcher in the text the last call returned.
InnerBodyGenerated == MacroBody(call.result.val, "macro_rules! ctl10n_tr_inner")

KeyArmPositions == { i \in 1..Len(InnerBodyGenerated) : InnerBodyGenerated[i].tok = "arm" }

Invoked == expansion.result.shape # "none"

\* The key the first token of the last tr! denotes.
InvokedKey == LiteralValue(expansion.tokens[1])

----------------------------------------------------------------------------
(* Claims *)

\* C1: on a syntactically well-formed document parse_toml returns a mapping
\* if and only if the top-level value is a table whose values are all plain
\* strings; the mapping is then the table itself; otherwise the result is
\* TOMLStructureError and carries no mapping, whatever the other entries.
C1_ParseTomlShape ==
    (call.op = "parse_toml" /\ SyntacticallyValid(text)) =>
        /\ call.result.ok <=> FlatStringTable(text)
        /\ FlatStringTable(text) => call.result = Ok(TableOf(text))
        /\ ~FlatStringTable(text) => call.result = Err("TOMLStructureError", {})

\* C1 witness: a valid string entry beside a non-string one, rejected.
C1_Witness ==
    /\ call.op = "parse_toml"
    /\ SyntacticallyValid(text)
    /\ \E i, j \in 1..Len(text.entries) :
           /\ text.entries[i].value.type = "String"
           /\ text.entries[j].value.type # "String"
    /\ call.result.err = "TOMLStructureError"

\* C2: on a syntactically invalid document parse_toml and gen_strings_macro
\* return TOMLParseError, never TOMLStructureError, also when the document
\* holds non-string values, and return no mapping and no generated text.
C2_SyntaxErrorFirst ==
    ~SyntacticallyValid(text) =>
        /\ call.op = "parse_toml" => call.result = Err("TOMLParseError", {})
        /\ call.op = "gen_strings_macro" => call.result = Err("TOMLParseError", <<>>)

\* C2 witness: gen_strings_macro on an invalid document with a non-string value.
C2_Witness ==
    /\ call.op = "gen_strings_macro"
    /\ ~SyntacticallyValid(text)
    /\ ~FlatStringTable(text)
    /\ call.result.err = "TOMLParseError"

\* C3: the inner dispatcher of the generated text has one key arm for each
\* key of the table and none for another key: as many key arms as keys,
\* each arm's key a key of the table, no key in two arms.
C3_OneArmPerKey ==
    Generated =>
        /\ Cardinality(KeyArmPositions) = Cardinality(KeysOf(text))
        /\ \A i \in KeyArmPositions : LiteralValue(InnerBodyGenerated[i].key) \in KeysOf(text)
        /\ \A k \in KeysOf(text) :
               \E i \in KeyArmPositions : LiteralValue(InnerBodyGenerated[i].key) = k
        /\ \A i, j \in KeyArmPositions :
               i # j => InnerBodyGenerated[i].key # InnerBodyGenerated[j].key

\* C3 witness: text generated for a table of two keys or more.
C3_Witness == Generated /\ Cardinality(KeysOf(text)) >= 2

\* C4: the single-argument lookup of a key k of the table against the
\* generated text resolves to a literal that denotes exactly T[k].
C4_LookupRoundTrip ==
    (Invoked /\ Len(expansion.tokens) = 1) =>
        \A p \in TableOf(text) :
            p[1] = InvokedKey =>
                /\ expansion.result.shape = "inner"
                /\ expansion.result.inner.kind = "literal"
                /\ LiteralValue(expansion.result.inner.lit) = p[2]

\* C4 witness: a lookup, in a table of two keys, of a key whose value holds
\* a quote and a backslash.
C4_Witness ==
    /\ Invoked
    /\ Len(expansion.tokens) = 1
    /\ Cardinality(KeysOf(text)) >= 2
    /\ <<InvokedKey, <<"{", "\"", "\\", "}">>>> \in TableOf(text)
    /\ expansion.result.inner.kind = "literal"

\* C5: the lookup of a key token that is no key of the table is taken by
\* the catch-all arm alone and is a compile-time failure naming the token;
\* the lookup of a key of the table never reaches the catch-all arm.
C5_UnknownKeyCatchAll ==
    (Invoked /\ Len(expansion.tokens) = 1) =>
        /\ InvokedKey \notin KeysOf(text) =>
               /\ expansion.result.inner.kind = "compile_error"
               /\ expansion.result.inner.key = expansion.tokens[1]
        /\ InvokedKey \in KeysOf(text) => expansion.result.inner.kind # "compile_error"

\* C6: two calls of gen_strings_macro on the same text return the same
\* result.
C6_Deterministic ==
    [][(call.op = "gen_strings_macro" /\ call'.op = "gen_strings_macro" /\ text' = text)
           => call'.result = call.result]_vars

\* C7: for the empty table gen_strings_macro succeeds and the inner
\* dispatcher holds the catch-all arm with nothing before it.
C7_EmptyTableOnlyCatchAll ==
    (call.op = "gen_strings_macro" /\ SyntacticallyValid(text)
        /\ text.top = "Table" /\ text.entries = <<>>) =>
        /\ call.result.ok
        /\ KeyArmPositions = {}
        /\ InnerBodyGenerated[1] = CatchAll

\* C8: tr has two call shapes.  A single key token expands to the inner
\* dispatcher's result alone, no formatting call; a key token, a comma and
\* extra arguments expand to a formatting call on the inner dispatcher's
\* result with the extra arguments as given, in their order; the template
\* of a key of the table denotes its value; nothing else is taken.
C8_TwoCallShapes ==
    Invoked =>
        LET t == expansion.tokens
            r == expansion.result
            single == Len(t) = 1
            extra == Len(t) >= 2 /\ t[2] = Comma
        IN  /\ single => r.shape = "inner" /\ r.args = <<>>
            /\ extra => r.shape = "format" /\ r.args = SubSeq(t, 3, Len(t))
            /\ (single \/ extra) =>
                   \A p \in TableOf(text) :
                       p[1] = InvokedKey =>
                           r.inner.kind = "literal" /\ LiteralValue(r.inner.lit) = p[2]
            /\ ~(single \/ extra) => r.shape = "no_rules_expected"

\* C8 witness: a formatting call with two different extra arguments on a key
\* of the table.
C8_Witness ==
    /\ Invoked
    /\ expansion.result.shape = "format"
    /\ Len(expansion.result.args) = 2
    /\ expansion.result.args[1] # expansion.result.args[2]
    /\ InvokedKey \in KeysOf(text)

\* The error of the first step of convert_strings_file that fails, in the
\* order read the input, parse it, validate its shape, write the output.
FirstFailure(in, out) ==
    IF ~in.opens \/ ~in.reads THEN "IOError"
    ELSE IF ~SyntacticallyValid(in.doc) THEN "TOMLParseError"
    ELSE IF ~FlatStringTable(in.doc) THEN "TOMLStructureError"
    ELSE IF ~out.opens \/ out.written = WriteFails THEN "IOError"
    ELSE "none"

\* C9: when convert_strings_file fails, rs_file is as it was before the
\* call, not created and not modified, and the error is the one of the
\* first failing step.
C9_FailureLeavesOutput ==
    (conv.calls > 0 /\ ~conv.result.ok) =>
        /\ rsFile = conv.before
        /\ conv.result.err = FirstFailure(conv.in, conv.out)

\* C10: when the last convert_strings_file returned Ok, rs_file holds
\* exactly the text gen_strings_macro returned for that call, whatever it
\* held before.
C10_OutputIsGeneratedText ==
    (conv.calls > 0 /\ conv.result.ok) =>
        /\ rsFile.exists
        /\ rsFile.content = conv.result.val

====
